---- MODULE Spec2Model ----
(***************************************************************************)
(* Model of the bounded-chunk synthesis pipeline of the podcast generator: *)
(* the chunker and the synthesizer of src/text-to-speech.js, the cache     *)
(* gate and the request handler of src/function.js, the usage ledger of    *)
(* the usage tracker (src/index.js, lines 303-410) and the JSON/blob store *)
(* helpers of src/utils.js and the cloud-storage module, the retention     *)
(* operations of src/retention-policy.js and the event stream of the       *)
(* response.                                                               *)
(*                                                                         *)
(* Strings are sequences of one-character strings.  The numeric sizes of   *)
(* the code (chunk size 1000, byte limit 5000) are scaled down, keeping    *)
(* their ratios, so that every branch of the chunker is exercised by short *)
(* texts.                                                                  *)
(*                                                                         *)
(* The environment: any write to the store, any call of the synthesis      *)
(* service and the fetch of an article may fail, and an invocation may be  *)
(* stopped at any await.  Reads of the store (the index, the ledger, the   *)
(* existence check) are taken to answer with what the store holds.         *)
(***************************************************************************)
EXTENDS Integers, Sequences, FiniteSets, TLC

(***************************************************************************)
(* Bounds of the model                                                     *)
(***************************************************************************)
\* chunkSize passed by textToAudio (1000 in the code, text-to-speech.js:53)
ChunkSize == 4
\* longest input text drawn for the chunker
MaxLen == 7

(***************************************************************************)
(* Characters and strings                                                  *)
(***************************************************************************)
\* "W" stands for a character of the Basic Multilingual Plane whose UTF-8
\* encoding takes three bytes (one UTF-16 code unit, e.g. U+20AC)
NL == "\n"
Alphabet == {"a", "W", " ", ".", NL}

\* the characters of texts with a comma in them
SecondaryAlphabet == {"a", ",", " "}

IsWs(c) == c \in {" ", NL}

IsPunct(c) == c \in {".", "!", "?"}

\* new TextEncoder().encode(c).length for one UTF-16 code unit
CharBytes(c) == IF c = "W" THEN 3 ELSE 1

RECURSIVE ByteLength(_)
ByteLength(s) == IF s = <<>> THEN 0 ELSE CharBytes(Head(s)) + ByteLength(Tail(s))

Min(a, b) == IF a < b THEN a ELSE b

Max(a, b) == IF a > b THEN a ELSE b

\* String.prototype.substring(a, b), 0-based, end exclusive, clamped
Substring(s, a, b) == SubSeq(s, Min(Max(a, 0), Len(s)) + 1, Min(Max(b, 0), Len(s)))

\* String.prototype.substring(a)
SubstringFrom(s, a) == Substring(s, a, Len(s))

RECURSIVE TrimStart(_)
TrimStart(s) == IF s # <<>> /\ IsWs(Head(s)) THEN TrimStart(Tail(s)) ELSE s

RECURSIVE TrimEnd(_)
TrimEnd(s) ==
  IF s # <<>> /\ IsWs(s[Len(s)]) THEN TrimEnd(SubSeq(s, 1, Len(s) - 1)) ELSE s

\* String.prototype.trim()
Trim(s) == TrimEnd(TrimStart(s))

\* String.prototype.lastIndexOf(ch, fromIndex): 0-based index of the last
\* occurrence of ch at an index <= fromIndex, or -1
LastIndexOf(s, ch, fromIndex) ==
  LET hits == {i \in 0..Min(fromIndex, Len(s) - 1) : s[i + 1] = ch}
  IN  IF hits = {} THEN -1 ELSE CHOOSE i \in hits : \A j \in hits : j <= i

\* /[.!?]$/.test(s)
EndsWithPunct(s) == s # <<>> /\ IsPunct(s[Len(s)])

(***************************************************************************)
(* splitTextIntoChunks (src/text-to-speech.js:139-221)                     *)
(***************************************************************************)
\* Math.floor(chunkSize * 0.8)
SafeChunkSize(chunkSize) == (chunkSize * 8) \div 10

\* end (1-based) of the leftmost-longest match of /\n\s*\n/ starting at i, or 0
ParaSepEnd(s, i) ==
  LET ends == {j \in (i + 1)..Len(s) :
                 s[j] = NL /\ \A k \in (i + 1)..(j - 1) : IsWs(s[k])}
  IN  IF s[i] # NL \/ ends = {} THEN 0
      ELSE CHOOSE j \in ends : \A k \in ends : k <= j

\* text.split(/\n\s*\n/)
RECURSIVE SplitParagraphs(_)
SplitParagraphs(s) ==
  LET starts == {i \in 1..Len(s) : ParaSepEnd(s, i) # 0}
  IN  IF starts = {} THEN <<s>>
      ELSE LET i == CHOOSE x \in starts : \A y \in starts : x <= y
           IN  <<SubSeq(s, 1, i - 1)>>
                 \o SplitParagraphs(SubSeq(s, ParaSepEnd(s, i) + 1, Len(s)))

\* last index of the run of characters satisfying (punct = IsPunct) from p
RECURSIVE RunEnd(_, _, _)
RunEnd(s, p, punct) ==
  IF p < Len(s) /\ (IsPunct(s[p + 1]) <=> punct) THEN RunEnd(s, p + 1, punct) ELSE p

\* the successive matches of /[^.!?]+[.!?]+|[^.!?]+$/g from position p
RECURSIVE MatchFrom(_, _)
MatchFrom(s, p) ==
  IF p > Len(s) THEN <<>>
  ELSE IF IsPunct(s[p]) THEN MatchFrom(s, p + 1)
  ELSE LET q == RunEnd(s, p, FALSE)
       IN  IF q = Len(s) THEN <<SubSeq(s, p, q)>>
           ELSE LET r == RunEnd(s, q + 1, TRUE)
                IN  <<SubSeq(s, p, r)>> \o MatchFrom(s, r + 1)

\* paragraph.match(/[^.!?]+[.!?]+|[^.!?]+$/g) || [paragraph]
MatchSentences(paragraph) ==
  LET m == MatchFrom(paragraph, 1)
  IN  IF m = <<>> THEN <<paragraph>> ELSE m

\* ForcedSplitStep with the trim of line 212 forgotten
ForcedSplitStepNoTrim(fragment, safe) ==
  LET found == LastIndexOf(fragment, " ", safe)
      at    == IF found = -1 THEN safe ELSE found
      slice == Trim(Substring(fragment, 0, at))
  IN  [splitIndex |-> at,
       part |-> IF EndsWithPunct(slice) THEN slice ELSE Append(slice, "."),
       rest |-> SubstringFrom(fragment, at)]

\* one iteration of the hard-split loop (lines 200-212) on a fragment longer
\* than the safe size: the split point, the slice pushed and what remains
ForcedSplitStep(fragment, safe) ==
  LET found == LastIndexOf(fragment, " ", safe)
      at    == IF found = -1 THEN safe ELSE found
      slice == Trim(Substring(fragment, 0, at))
  IN  [splitIndex |-> at,
       part |-> IF EndsWithPunct(slice) THEN slice ELSE Append(slice, "."),
       rest |-> Trim(SubstringFrom(fragment, at))]

\* the hard-split loop (lines 193-213): slices pushed, final currentChunk
RECURSIVE ForcedSplit(_, _)
ForcedSplit(fragment, safe) ==
  IF Len(fragment) = 0 THEN [chunks |-> <<>>, cur |-> <<>>]
  ELSE IF Len(fragment) <= safe THEN [chunks |-> <<>>, cur |-> fragment]
  ELSE LET st == ForcedSplitStep(fragment, safe)
           r  == ForcedSplit(st.rest, safe)
       IN  [chunks |-> <<st.part>> \o r.chunks, cur |-> r.cur]

\* "if (currentChunk) { chunks.push(currentChunk); currentChunk = '' }"
Flush(acc) ==
  IF acc.cur # <<>> THEN [chunks |-> Append(acc.chunks, acc.cur), cur |-> <<>>]
  ELSE acc

\* body of the sentence loop (lines 174-214)
AddSentence(acc, sentence, safe) ==
  IF Len(acc.cur) + Len(sentence) < safe
  THEN [acc EXCEPT !.cur = acc.cur \o (IF acc.cur # <<>> THEN <<" ">> ELSE <<>>)
                             \o sentence]
  ELSE LET f == Flush(acc)
       IN  IF Len(sentence) <= safe THEN [f EXCEPT !.cur = sentence]
           ELSE LET r == ForcedSplit(sentence, safe)
                IN  [chunks |-> f.chunks \o r.chunks, cur |-> r.cur]

RECURSIVE AddSentences(_, _, _)
AddSentences(acc, sentences, safe) ==
  IF sentences = <<>> THEN acc
  ELSE AddSentences(AddSentence(acc, Head(sentences), safe), Tail(sentences), safe)

\* body of the paragraph loop (lines 150-215)
AddParagraph(acc, paragraph, safe) ==
  IF Trim(paragraph) = <<>> THEN acc
  ELSE IF Len(acc.cur) + Len(paragraph) < safe
  THEN [acc EXCEPT !.cur = acc.cur \o (IF acc.cur # <<>> THEN <<NL, NL>> ELSE <<>>)
                             \o paragraph]
  ELSE LET f == Flush(acc)
       IN  IF Len(paragraph) <= safe THEN [f EXCEPT !.cur = paragraph]
           ELSE AddSentences(f, MatchSentences(paragraph), safe)

RECURSIVE AddParagraphs(_, _, _)
AddParagraphs(acc, paragraphs, safe) ==
  IF paragraphs = <<>> THEN acc
  ELSE AddParagraphs(AddParagraph(acc, Head(paragraphs), safe), Tail(paragraphs), safe)

\* splitTextIntoChunks with its paragraph loop forgotten
splitTextUnsplit(input, chunkSize) == <<input>>

\* splitTextIntoChunks with the early return of line 140 forgotten
splitTextNoEarlyReturn(input, chunkSize) ==
  Flush(AddParagraphs([chunks |-> <<>>, cur |-> <<>>],
                      SplitParagraphs(input),
                      SafeChunkSize(chunkSize))).chunks

splitTextIntoChunks(input, chunkSize) ==
  IF Len(input) <= chunkSize THEN <<input>>
  ELSE Flush(AddParagraphs([chunks |-> <<>>, cur |-> <<>>],
                           SplitParagraphs(input),
                           SafeChunkSize(chunkSize))).chunks


(***************************************************************************)
(* The world outside the program                                           *)
(***************************************************************************)
Procs == {"p1", "p2"}

\* request URLs: "u" and "u/" name the same page, "v" another one, "e" a
\* page without any text
URLs == {<<"u">>, <<"u", "/">>, <<"v">>, <<"e">>}

NoUrl == <<>>

T1 == <<"A", " ", "b">>

T2 == <<"C", "?">>

T3 == <<"e">>

Titles == {T1, T2, T3}

\* what Readability extracts from the page behind a URL (title, trimmed text)
ArticleAt(url) ==
  IF url[1] = "u"
  THEN [title |-> T1, content |-> <<"a", "a", "a", " ", "a", "a">>, description |-> "d1", link |-> url]
  ELSE IF url[1] = "v"
  THEN [title |-> T2, content |-> <<"W", ".">>, description |-> "d2", link |-> url]
  ELSE [title |-> T3, content |-> <<>>, description |-> "", link |-> url]

\* uuidv4().slice(0, 8): a fresh random draw on every call
UUIDS == {"id1", "id2"}

\* how many invocations of generatePodcast a run starts
MaxInvocations == 2
\* how many times the synthesis service answers "longer than the limit" in a run
MaxRejects == 1

(***************************************************************************)
(* createSafeFilename (src/utils.js:33-36)                                 *)
(***************************************************************************)
\* sanitize-filename: drops the characters a file name must not hold
RECURSIVE sanitize(_)
sanitize(t) ==
  IF t = <<>> THEN <<>>
  ELSE IF Head(t) \in {"/", "?", "<", ">", ":", "*", "|"} THEN sanitize(Tail(t))
  ELSE <<Head(t)>> \o sanitize(Tail(t))

\* .replace(/\s+/g, '-')
RECURSIVE DashWhitespace(_)
DashWhitespace(t) ==
  IF t = <<>> THEN <<>>
  ELSE IF IsWs(Head(t)) THEN <<"-">> \o DashWhitespace(TrimStart(t))
  ELSE <<Head(t)>> \o DashWhitespace(Tail(t))

LowerChar(c) == IF c = "A" THEN "a" ELSE IF c = "C" THEN "c" ELSE c

\* .toLowerCase()
ToLowerCase(t) == [k \in 1..Len(t) |-> LowerChar(t[k])]

\* `${safeTitle}-${uuidv4().slice(0, 8)}` + '.mp3', with the drawn uuid
createSafeFilename(title, uuid) ==
  [slug |-> ToLowerCase(DashWhitespace(sanitize(title))), id |-> uuid]

\* the object key of a file saved under a destination folder of the bucket
ObjectKey(fileName, destination) == <<destination, fileName>>

(***************************************************************************)
(* synthesizeSpeech helpers (src/text-to-speech.js:96-131)                 *)
(***************************************************************************)
\* the service's hard limit, 5000 bytes for chunkSize 1000 (ratio kept)
ByteLimit == 5 * ChunkSize

\* characters cut per truncation step (100 in the code, for chunkSize 1000)
TruncStep == 1

\* the truncation target, 4800 = 5000 - 2 * 100
ByteMargin == ByteLimit - 2 * TruncStep

\* while (bytes(safeText) > 4800) safeText = safeText.substring(0, length - 100)
RECURSIVE TruncateTo(_)
TruncateTo(safeText) ==
  IF ByteLength(safeText) > ByteMargin
  THEN TruncateTo(Substring(safeText, 0, Len(safeText) - TruncStep))
  ELSE safeText

\* the truncation loop run down to the service's limit instead of the margin
RECURSIVE TruncateToLimit(_)
TruncateToLimit(safeText) ==
  IF ByteLength(safeText) > ByteLimit
  THEN TruncateToLimit(Substring(safeText, 0, Len(safeText) - TruncStep))
  ELSE safeText

\* Truncated with 5000 for 4800 in the loop condition of line 105
TruncatedToLimit(text) == IF ByteLength(text) > ByteLimit THEN TruncateToLimit(text) ELSE text

\* lines 98-110: the text actually submitted
Truncated(text) == IF ByteLength(text) > ByteLimit THEN TruncateTo(text) ELSE text

\* line 126: text.substring(0, Math.floor(text.length * 0.8))
Shrunk(text) == Substring(text, 0, (Len(text) * 8) \div 10)


(***************************************************************************)
(* The usage ledger (src/index.js:303-390)                                 *)
(***************************************************************************)
\* free characters per month (1,000,000 in the code), scaled to the articles
FreeChars == 5

\* dollars per million billable characters
PricePerMillion == 30

\* `${year}-${month}`: the calendar month of the wall clock
MonthKey == "2026-11"

EmptyMonth == [chirpChars |-> 0, totalChars |-> 0, articleCount |-> 0, costEstimate |-> 0]

MonthOf(stats, key) == IF key \in DOMAIN stats THEN stats[key] ELSE EmptyMonth

\* Tracked with "=" for "+=" in lines 320-321: the month's counts are
\* overwritten by the count of the call
TrackedOverwritten(stats, key, charCount) ==
  [k \in DOMAIN stats \cup {key} |->
     IF k = key
     THEN [chirpChars    |-> charCount,
           totalChars    |-> charCount,
           articleCount  |-> MonthOf(stats, key).articleCount + 1,
           costEstimate  |-> Max(0, charCount - FreeChars) * PricePerMillion]
     ELSE stats[k]]

\* lines 311-329; costEstimate is kept in units of 1/FreeChars dollar, so
\* that (billable / 1,000,000) * 30 stays an integer
Tracked(stats, key, charCount) ==
  LET m     == MonthOf(stats, key)
      chirp == m.chirpChars + charCount
  IN  [k \in DOMAIN stats \cup {key} |->
         IF k = key
         THEN [chirpChars    |-> chirp,
               totalChars    |-> m.totalChars + charCount,
               articleCount  |-> m.articleCount + 1,
               costEstimate  |-> Max(0, chirp - FreeChars) * PricePerMillion]
         ELSE stats[k]]

\* "if (bucket.field) total += bucket.field": a missing field adds nothing
FieldOr0(bucket, field) == IF field \in DOMAIN bucket THEN bucket[field] ELSE 0

\* the loops of lines 371-375 and 383-387 over the months still to visit
RECURSIVE LifetimeOver(_, _, _)
LifetimeOver(stats, keys, field) ==
  IF keys = {} THEN 0
  ELSE LET key == CHOOSE k \in keys : TRUE
       IN  FieldOr0(stats[key], field) + LifetimeOver(stats, keys \ {key}, field)

\* calculateLifetimeTotal that looks at the current month only
calculateLifetimeTotalOfMonth(stats) == FieldOr0(MonthOf(stats, MonthKey), "totalChars")

\* lines 368-378
calculateLifetimeTotal(stats) == LifetimeOver(stats, DOMAIN stats, "totalChars")

\* lines 380-390
calculateLifetimeArticles(stats) == LifetimeOver(stats, DOMAIN stats, "articleCount")

\* { ...bucket, lifetimeTotalChars, lifetimeArticleCount } (lines 336-340, 361-365)
WithLifetime(bucket, stats) ==
  [f \in DOMAIN bucket \cup {"lifetimeTotalChars", "lifetimeArticleCount"} |->
     IF f = "lifetimeTotalChars" THEN calculateLifetimeTotal(stats)
     ELSE IF f = "lifetimeArticleCount" THEN calculateLifetimeArticles(stats)
     ELSE bucket[f]]

\* lines 346-366, on the document loaded
getCurrentMonthStats(stats) == WithLifetime(MonthOf(stats, MonthKey), stats)

(***************************************************************************)
(* State                                                                   *)
(***************************************************************************)
VARIABLES
  \* durable, shared
  index,          \* processed-articles.json: link -> entry
  store,          \* the bucket: object key -> content
  ledger,         \* usage-stats.json, its history: month -> bucket
  \* one invocation of generatePodcast per process
  pc,
  articleUrl,
  processedArticles,
  article,
  filename,
  textChunks,
  i,
  text,
  audioChunks,
  audioPath,
  totalCharsProcessed,
  stats,
  updatedStats,
  \* the environment
  invocations,    \* invocations started so far
  rejects,        \* size-limit rejections answered so far
  \* observers (history of the run, read by no action's guard)
  checkpoint,     \* title -> chunks paid for by an invocation that then failed
  obs,            \* per running invocation: what was there when it started
  \* the chunker on its own
  ctext,
  cpc,
  cout,
  remaining,
  splitIndex,
  part,
  \* synthesizeSpeech on its own
  sinput,         \* the text it was first called with
  stext,          \* the text of the current (recursive) call
  spc,
  ssubmitted,     \* the text of the latest submission
  attempts,       \* submissions made so far
  \* the usage tracker on its own
  uledger,        \* usage-stats.json: the history, month -> bucket
  upc,            \* per caller: "idle", "loaded" (between load and save), "returned"
  ukind,          \* per caller: "track" or "query", the function called
  ucount,         \* per caller: the charCount passed to trackUsage
  ustats,         \* per caller: the document in memory
  uret,           \* per caller: the value returned
  ustarted,       \* calls started so far
  urecorded,      \* observer: trackUsage calls that saved, and their counts' sum
  uoverlap,       \* observer: a call loaded while another was about to save
  udraw,          \* per caller: the values Math.random() gave getOptimalVoice
  useen,          \* observer, per caller: the month's total when getOptimalVoice was called
  \* the retention operations on their own
  rindex,         \* processed-articles.json: link -> entry
  rstore,         \* the object keys of the bucket
  rpc,            \* "idle", "policy" or "specific" (in the deletion loop), "returned", "thrown"
  settings,       \* the options of the operation, defaults filled in
  rmem,           \* the index document in memory, to be saved
  rqueue,         \* what the deletion loop has still to visit
  rstats,         \* the stats object to be returned
  rbefore,        \* observer: index and bucket when the operation started
  rdeleted,       \* observer: objects the operation has deleted from the bucket
  rops,           \* operations started so far
  \* the response of generatePodcast on its own
  hreq,           \* per request: method and what the request will meet
  hpc,            \* per request: position in generatePodcast
  hlog,           \* per request: the events written to the response
  hended          \* per request: how many times the response was ended

durableVars == <<index, store, ledger>>

localVars == <<pc, articleUrl, processedArticles, article, filename, textChunks, i,
               text, audioChunks, audioPath, totalCharsProcessed, stats, updatedStats>>

envVars == <<invocations, rejects>>

obsVars == <<checkpoint, obs>>

sysVars == <<durableVars, localVars, envVars, obsVars>>

chunkVars == <<ctext, cpc, cout, remaining, splitIndex, part>>

synthVars == <<sinput, stext, spc, ssubmitted, attempts>>

voiceVars == <<udraw, useen>>

trackVars == <<uledger, upc, ukind, ucount, ustats, uret, ustarted, urecorded, uoverlap,
               voiceVars>>

retainVars == <<rindex, rstore, rpc, settings, rmem, rqueue, rstats, rbefore, rdeleted, rops>>

respVars == <<hreq, hpc, hlog, hended>>

vars == <<sysVars, chunkVars, synthVars, trackVars, retainVars, respVars>>

NoArticle == [title |-> <<>>, content |-> <<>>, description |-> "", link |-> <<>>]

NoFile == [slug |-> <<>>, id |-> ""]

NoObs == [held |-> FALSE, prior |-> FALSE, resume |-> 0, empty |-> FALSE]

SysInit ==
  /\ index = <<>>
  /\ store = <<>>
  /\ ledger = <<>>
  /\ pc = [p \in Procs |-> "idle"]
  /\ articleUrl = [p \in Procs |-> NoUrl]
  /\ processedArticles = [p \in Procs |-> <<>>]
  /\ article = [p \in Procs |-> NoArticle]
  /\ filename = [p \in Procs |-> NoFile]
  /\ textChunks = [p \in Procs |-> <<>>]
  /\ i = [p \in Procs |-> 0]
  /\ text = [p \in Procs |-> <<>>]
  /\ audioChunks = [p \in Procs |-> <<>>]
  /\ audioPath = [p \in Procs |-> NoFile]
  /\ totalCharsProcessed = [p \in Procs |-> 0]
  /\ stats = [p \in Procs |-> <<>>]
  /\ updatedStats = [p \in Procs |-> EmptyMonth]
  /\ invocations = 0
  /\ rejects = 0
  /\ checkpoint = [t \in Titles |-> 0]
  /\ obs = [p \in Procs |-> NoObs]

ChunkIdle ==
  /\ ctext = <<>>
  /\ cpc = "idle"
  /\ cout = <<>>
  /\ remaining = <<>>
  /\ splitIndex = -1
  /\ part = <<>>

SynthIdle ==
  /\ sinput = <<>>
  /\ stext = <<>>
  /\ spc = "idle"
  /\ ssubmitted = <<>>
  /\ attempts = 0

Callers == {"c1", "c2"}

NoRet == <<>>

NoDraw == <<>>

TrackIdle ==
  /\ uledger = <<>>
  /\ upc = [c \in Callers |-> "idle"]
  /\ ukind = [c \in Callers |-> "query"]
  /\ ucount = [c \in Callers |-> 0]
  /\ ustats = [c \in Callers |-> <<>>]
  /\ uret = [c \in Callers |-> NoRet]
  /\ ustarted = 0
  /\ urecorded = [calls |-> 0, chars |-> 0]
  /\ uoverlap = FALSE
  /\ udraw = [c \in Callers |-> NoDraw]
  /\ useen = [c \in Callers |-> 0]

NoSettings == <<>>

NoStats == <<>>

RetainIdle ==
  /\ rindex = <<>>
  /\ rstore = {}
  /\ rpc = "idle"
  /\ settings = NoSettings
  /\ rmem = <<>>
  /\ rqueue = <<>>
  /\ rstats = NoStats
  /\ rbefore = [index |-> <<>>, store |-> {}]
  /\ rdeleted = 0
  /\ rops = 0

Requests == {"r1", "r2", "r3"}

NoRequest == <<>>

RespIdle ==
  /\ hreq = [r \in Requests |-> NoRequest]
  /\ hpc = [r \in Requests |-> "idle"]
  /\ hlog = [r \in Requests |-> <<>>]
  /\ hended = [r \in Requests |-> 0]

Init == SysInit /\ ChunkIdle /\ SynthIdle /\ TrackIdle /\ RetainIdle /\ RespIdle


(***************************************************************************)
(* generatePodcast (src/function.js:14-138) and textToAudio                *)
(* (src/text-to-speech.js:19-88), one action per awaited step              *)
(***************************************************************************)
\* line 58: the URL with its trailing slash removed or added
AltUrl(url) ==
  IF url[Len(url)] = "/" THEN SubSeq(url, 1, Len(url) - 1) ELSE Append(url, "/")

\* the gate of line 60 without the trailing-slash alternative
AlreadyProcessedExact(cache, url) == url \in DOMAIN cache

\* line 60: processedArticles[articleUrl] || processedArticles[altUrl]
AlreadyProcessed(cache, url) == url \in DOMAIN cache \/ AltUrl(url) \in DOMAIN cache

\* the audio the service returns for a submitted text: one buffer
Audio(submitted) == <<submitted>>

\* Buffer.concat with the list taken from its end
RECURSIVE ConcatReversed(_)
ConcatReversed(buffers) ==
  IF buffers = <<>> THEN <<>> ELSE ConcatReversed(Tail(buffers)) \o Head(buffers)

\* line 69: Buffer.concat(audioChunks)
RECURSIVE Concat(_)
Concat(buffers) ==
  IF buffers = <<>> THEN <<>> ELSE Head(buffers) \o Concat(Tail(buffers))

\* line 69
Assemble(chunks, buffers) == IF Len(chunks) = 1 THEN buffers[1] ELSE Concat(buffers)

\* the artifacts in the bucket that textToAudio saved for a title
ArtifactsOf(title) ==
  {id \in UUIDS : ObjectKey(createSafeFilename(title, id), "audio") \in DOMAIN store}

\* the invocation of p is over: its locals are gone; o is what is remembered
\* of it until p's next invocation starts
Leave(p, o) ==
  /\ pc' = [pc EXCEPT ![p] = "idle"]
  /\ articleUrl' = [articleUrl EXCEPT ![p] = NoUrl]
  /\ processedArticles' = [processedArticles EXCEPT ![p] = <<>>]
  /\ article' = [article EXCEPT ![p] = NoArticle]
  /\ filename' = [filename EXCEPT ![p] = NoFile]
  /\ textChunks' = [textChunks EXCEPT ![p] = <<>>]
  /\ i' = [i EXCEPT ![p] = 0]
  /\ text' = [text EXCEPT ![p] = <<>>]
  /\ audioChunks' = [audioChunks EXCEPT ![p] = <<>>]
  /\ audioPath' = [audioPath EXCEPT ![p] = NoFile]
  /\ totalCharsProcessed' = [totalCharsProcessed EXCEPT ![p] = 0]
  /\ stats' = [stats EXCEPT ![p] = <<>>]
  /\ updatedStats' = [updatedStats EXCEPT ![p] = EmptyMonth]
  /\ obs' = [obs EXCEPT ![p] = o]

\* lines 130-131: 'complete' is sent and the response ended
Return(p) == Leave(p, NoObs)

\* the catch blocks (lines 106-111 and 133-137): error event, res.end(), return.
\* Chunks the service accepted before the failure stay paid for.
Fail(p, where) ==
  /\ Leave(p, [NoObs EXCEPT !.empty = (where = "empty")])
  /\ where \in {"fetch", "empty", "chunk", "artifact", "index", "ledger", "finalize", "crash"}
  /\ checkpoint' =
       IF pc[p] \in {"synth", "save"}
       THEN [checkpoint EXCEPT ![article[p].title] = Max(@, Len(audioChunks[p]))]
       ELSE checkpoint
  /\ UNCHANGED <<durableVars, envVars, chunkVars, synthVars, trackVars, retainVars, respVars>>

\* Start with a lock per article: a request for a URL that a running
\* invocation is working on is treated as already processed
StartExclusive(p, url) ==
  /\ pc[p] = "idle"
  /\ invocations < MaxInvocations
  /\ pc' = [pc EXCEPT ![p] =
               IF \/ url = NoUrl
                  \/ AlreadyProcessed(index, url)
                  \/ \E q \in Procs \ {p} : pc[q] # "idle" /\ articleUrl[q] \in {url, AltUrl(url)}
               THEN "stats" ELSE "fetch"]
  /\ obs' = [obs EXCEPT ![p] =
               [NoObs EXCEPT
                  !.held = url # NoUrl /\ (url \in DOMAIN index \/ AltUrl(url) \in DOMAIN index),
                  !.resume = IF url = NoUrl THEN 0 ELSE checkpoint[ArticleAt(url).title]]]
  /\ articleUrl' = [articleUrl EXCEPT ![p] = url]
  /\ processedArticles' = [processedArticles EXCEPT ![p] = index]
  /\ totalCharsProcessed' = [totalCharsProcessed EXCEPT ![p] = 0]
  /\ invocations' = invocations + 1
  /\ UNCHANGED <<durableVars, article, filename, textChunks, i, text, audioChunks,
                 audioPath, stats, updatedStats, rejects, checkpoint, chunkVars, synthVars, trackVars, retainVars, respVars>>

\* lines 34-63: the request arrives, the index is loaded and the gate decided
Start(p, url) ==
  /\ pc[p] = "idle"
  /\ invocations < MaxInvocations
  /\ pc' = [pc EXCEPT ![p] = IF url = NoUrl \/ AlreadyProcessed(index, url)
                               THEN "stats" ELSE "fetch"]
  /\ obs' = [obs EXCEPT ![p] =
               [NoObs EXCEPT
                  !.held = url # NoUrl /\ (url \in DOMAIN index \/ AltUrl(url) \in DOMAIN index),
                  !.resume = IF url = NoUrl THEN 0 ELSE checkpoint[ArticleAt(url).title]]]
  /\ articleUrl' = [articleUrl EXCEPT ![p] = url]
  /\ processedArticles' = [processedArticles EXCEPT ![p] = index]
  /\ totalCharsProcessed' = [totalCharsProcessed EXCEPT ![p] = 0]
  /\ invocations' = invocations + 1
  /\ UNCHANGED <<durableVars, article, filename, textChunks, i, text, audioChunks,
                 audioPath, stats, updatedStats, rejects, checkpoint, chunkVars, synthVars, trackVars, retainVars, respVars>>

\* line 66: processArticle throws
FetchFailed(p) ==
  /\ pc[p] = "fetch"
  /\ Fail(p, "fetch")

\* lines 66-79 and text-to-speech.js:19-53: the article is fetched, the file
\* name drawn, the artifact looked up and, when absent, the text split
TextToAudioCall(p, uuid) ==
  /\ pc[p] = "fetch"
  /\ LET a      == ArticleAt(articleUrl[p])
         fn     == createSafeFilename(a.title, uuid)
         chunks == splitTextIntoChunks(a.content, ChunkSize)
     IN  /\ Trim(a.content) # <<>>
         /\ article' = [article EXCEPT ![p] = a]
         /\ filename' = [filename EXCEPT ![p] = fn]
         /\ obs' = [obs EXCEPT ![p].prior = ArtifactsOf(a.title) # {}]
         /\ IF ObjectKey(fn, "audio") \in DOMAIN store
            THEN /\ audioPath' = [audioPath EXCEPT ![p] = fn]
                 /\ pc' = [pc EXCEPT ![p] = "commit"]
                 /\ UNCHANGED <<textChunks, text>>
            ELSE /\ textChunks' = [textChunks EXCEPT ![p] = chunks]
                 /\ text' = [text EXCEPT ![p] = IF chunks = <<>> THEN <<>> ELSE chunks[1]]
                 /\ pc' = [pc EXCEPT ![p] = IF chunks = <<>> THEN "save" ELSE "synth"]
                 /\ UNCHANGED audioPath
  /\ UNCHANGED <<durableVars, envVars, articleUrl, processedArticles, i, audioChunks,
                 totalCharsProcessed, stats, updatedStats, checkpoint, chunkVars, synthVars, trackVars, retainVars, respVars>>

\* the guard of line 20 forgotten: the empty text is split and synthesized
EmptyTextSynthesized(p) ==
  /\ pc[p] = "fetch"
  /\ Trim(ArticleAt(articleUrl[p]).content) = <<>>
  /\ article' = [article EXCEPT ![p] = ArticleAt(articleUrl[p])]
  /\ textChunks' = [textChunks EXCEPT ![p] = <<ArticleAt(articleUrl[p]).content>>]
  /\ text' = [text EXCEPT ![p] = ArticleAt(articleUrl[p]).content]
  /\ pc' = [pc EXCEPT ![p] = "synth"]
  /\ UNCHANGED <<durableVars, envVars, obsVars, articleUrl, processedArticles, filename,
                 i, audioChunks, audioPath, totalCharsProcessed, stats, updatedStats,
                 chunkVars, synthVars, trackVars, retainVars, respVars>>

\* line 20: empty or whitespace-only text
EmptyText(p) ==
  /\ pc[p] = "fetch"
  /\ Trim(ArticleAt(articleUrl[p]).content) = <<>>
  /\ Fail(p, "empty")

\* synthesizeSpeech, lines 98-119: the service accepts the submitted text
SynthAccepted(p) ==
  /\ pc[p] = "synth"
  /\ LET submitted == Truncated(text[p])
         last      == i[p] + 1 = Len(textChunks[p])
     IN  /\ audioChunks' = [audioChunks EXCEPT ![p] = Append(@, Audio(submitted))]
         /\ i' = [i EXCEPT ![p] = @ + 1]
         /\ text' = [text EXCEPT ![p] = IF last THEN <<>> ELSE textChunks[p][i[p] + 2]]
         /\ pc' = [pc EXCEPT ![p] = IF last THEN "save" ELSE "synth"]
  /\ UNCHANGED <<durableVars, envVars, obsVars, articleUrl, processedArticles, article,
                 filename, textChunks, audioPath, totalCharsProcessed, stats,
                 updatedStats, chunkVars, synthVars, trackVars, retainVars, respVars>>

\* lines 120-127: the service answers "longer than the limit of 5000 bytes";
\* synthesizeSpeech calls itself with 80% of the text
SynthTooLong(p) ==
  /\ pc[p] = "synth"
  /\ rejects < MaxRejects
  /\ rejects' = rejects + 1
  /\ text' = [text EXCEPT ![p] = Shrunk(Truncated(@))]
  /\ UNCHANGED <<durableVars, obsVars, invocations, pc, articleUrl, processedArticles,
                 article, filename, textChunks, i, audioChunks, audioPath,
                 totalCharsProcessed, stats, updatedStats, chunkVars, synthVars, trackVars, retainVars, respVars>>

\* lines 120-129 and 84-87: any other service error is rethrown
SynthFailed(p) ==
  /\ pc[p] = "synth"
  /\ Fail(p, "chunk")

\* lines 66-76: the assembled audio is saved under audio/
SaveArtifact(p) ==
  /\ pc[p] = "save"
  /\ LET key     == ObjectKey(filename[p], "audio")
         content == Assemble(textChunks[p], audioChunks[p])
     IN  store' = (key :> content) @@ store
  /\ audioPath' = [audioPath EXCEPT ![p] = filename[p]]
  /\ pc' = [pc EXCEPT ![p] = "commit"]
  /\ UNCHANGED <<index, ledger, envVars, obsVars, articleUrl, processedArticles, article,
                 filename, textChunks, i, text, audioChunks, totalCharsProcessed, stats,
                 updatedStats, chunkVars, synthVars, trackVars, retainVars, respVars>>

\* a failed save taken for a success: the reference is returned all the same
SaveArtifactFailureSwallowed(p) ==
  /\ pc[p] = "save"
  /\ audioPath' = [audioPath EXCEPT ![p] = filename[p]]
  /\ pc' = [pc EXCEPT ![p] = "commit"]
  /\ UNCHANGED <<durableVars, envVars, obsVars, articleUrl, processedArticles, article,
                 filename, textChunks, i, text, audioChunks, totalCharsProcessed, stats,
                 updatedStats, chunkVars, synthVars, trackVars, retainVars, respVars>>

\* line 73: saveToCloudStorage throws (file.save rejects with an error other
\* than the ACL error of src/unnamed/part_004:166-173, which a save without
\* ACL options does not raise)
SaveArtifactFailed(p) ==
  /\ pc[p] = "save"
  /\ Fail(p, "artifact")

\* CommitIndex with the entry added to the index as it is in the store at
\* the time of the save
CommitIndexMerged(p) ==
  /\ pc[p] = "commit"
  /\ LET entry == [title       |-> article[p].title,
                   audioPath   |-> audioPath[p],
                   description |-> article[p].description]
         doc   == (article[p].link :> entry) @@ index
     IN  /\ processedArticles' = [processedArticles EXCEPT ![p] = doc]
         /\ index' = doc
  /\ totalCharsProcessed' = [totalCharsProcessed EXCEPT ![p] = @ + Len(article[p].content)]
  /\ pc' = [pc EXCEPT ![p] = "stats"]
  /\ UNCHANGED <<store, ledger, envVars, obsVars, articleUrl, article, filename,
                 textChunks, i, text, audioChunks, audioPath, stats, updatedStats, chunkVars, synthVars, trackVars, retainVars, respVars>>

\* lines 82-104: the entry is added to the loaded index, which is saved whole
CommitIndex(p) ==
  /\ pc[p] = "commit"
  /\ LET entry == [title       |-> article[p].title,
                   audioPath   |-> audioPath[p],
                   description |-> article[p].description]
         doc   == (article[p].link :> entry) @@ processedArticles[p]
     IN  /\ processedArticles' = [processedArticles EXCEPT ![p] = doc]
         /\ index' = doc
  /\ totalCharsProcessed' = [totalCharsProcessed EXCEPT ![p] = @ + Len(article[p].content)]
  /\ pc' = [pc EXCEPT ![p] = "stats"]
  /\ UNCHANGED <<store, ledger, envVars, obsVars, articleUrl, article, filename,
                 textChunks, i, text, audioChunks, audioPath, stats, updatedStats, chunkVars, synthVars, trackVars, retainVars, respVars>>

\* line 104: saveJsonFile throws
CommitIndexFailed(p) ==
  /\ pc[p] = "commit"
  /\ Fail(p, "index")

\* ReadStats with trackUsage called whatever the count, and without its
\* charCount === 0 return: a call is recorded although nothing was processed
ReadStatsCounted(p) ==
  /\ pc[p] = "stats"
  /\ totalCharsProcessed[p] = 0
  /\ ledger' = Tracked(ledger, MonthKey, 0)
  /\ updatedStats' = [updatedStats EXCEPT ![p] = Tracked(ledger, MonthKey, 0)[MonthKey]]
  /\ pc' = [pc EXCEPT ![p] = "finalize"]
  /\ UNCHANGED <<index, store, envVars, obsVars, articleUrl, processedArticles, article,
                 filename, textChunks, i, text, audioChunks, audioPath,
                 totalCharsProcessed, stats, chunkVars, synthVars, trackVars, retainVars, respVars>>

\* lines 119-120 with nothing processed: getCurrentMonthStats only
ReadStats(p) ==
  /\ pc[p] = "stats"
  /\ totalCharsProcessed[p] = 0
  /\ updatedStats' = [updatedStats EXCEPT ![p] = MonthOf(ledger, MonthKey)]
  /\ pc' = [pc EXCEPT ![p] = "finalize"]
  /\ UNCHANGED <<durableVars, envVars, obsVars, articleUrl, processedArticles, article,
                 filename, textChunks, i, text, audioChunks, audioPath,
                 totalCharsProcessed, stats, chunkVars, synthVars, trackVars, retainVars, respVars>>

\* lines 119-121 and trackUsage, lines 306-329: the result of
\* getCurrentMonthStats is replaced by that of trackUsage, which loads the
\* ledger and updates it in memory
TrackLoad(p) ==
  /\ pc[p] = "stats"
  /\ totalCharsProcessed[p] > 0
  /\ stats' = [stats EXCEPT ![p] = Tracked(ledger, MonthKey, totalCharsProcessed[p])]
  /\ pc' = [pc EXCEPT ![p] = "trackSave"]
  /\ UNCHANGED <<durableVars, envVars, obsVars, articleUrl, processedArticles, article,
                 filename, textChunks, i, text, audioChunks, audioPath,
                 totalCharsProcessed, updatedStats, chunkVars, synthVars, trackVars, retainVars, respVars>>

\* trackUsage, lines 331-340: the ledger is saved whole
TrackSave(p) ==
  /\ pc[p] = "trackSave"
  /\ ledger' = stats[p]
  /\ updatedStats' = [updatedStats EXCEPT ![p] = stats[p][MonthKey]]
  /\ pc' = [pc EXCEPT ![p] = "finalize"]
  /\ UNCHANGED <<index, store, envVars, obsVars, articleUrl, processedArticles, article,
                 filename, textChunks, i, text, audioChunks, audioPath,
                 totalCharsProcessed, stats, chunkVars, synthVars, trackVars, retainVars, respVars>>

\* line 331: saveJsonFile throws, caught at function.js:133
TrackSaveFailed(p) ==
  /\ pc[p] = "trackSave"
  /\ Fail(p, "ledger")

\* lines 125-131: feed and landing page are regenerated, 'complete' is sent
Finalize(p) ==
  /\ pc[p] = "finalize"
  /\ Return(p)
  /\ UNCHANGED <<durableVars, envVars, checkpoint, chunkVars, synthVars, trackVars, retainVars, respVars>>

\* line 129: generateFeedResponseData throws, caught at line 133
FinalizeFailed(p) ==
  /\ pc[p] = "finalize"
  /\ Fail(p, "finalize")

\* the instance is stopped (deadline, crash) in the middle of an invocation
Crash(p) ==
  /\ pc[p] # "idle"
  /\ Fail(p, "crash")

Next ==
  \E p \in Procs :
    \/ \E url \in URLs \cup {NoUrl} : Start(p, url)
    \/ FetchFailed(p)
    \/ \E uuid \in UUIDS : TextToAudioCall(p, uuid)
    \/ EmptyText(p)
    \/ SynthAccepted(p)
    \/ SynthTooLong(p)
    \/ SynthFailed(p)
    \/ SaveArtifact(p)
    \/ SaveArtifactFailed(p)
    \/ CommitIndex(p)
    \/ CommitIndexFailed(p)
    \/ ReadStats(p)
    \/ TrackLoad(p)
    \/ TrackSave(p)
    \/ TrackSaveFailed(p)
    \/ Finalize(p)
    \/ FinalizeFailed(p)
    \/ Crash(p)

Spec == Init /\ [][Next]_vars


(***************************************************************************)
(* The chunker on its own: splitTextIntoChunks applied to every text of    *)
(* at most MaxLen characters, its hard-split loop taken one iteration at a *)
(* time                                                                    *)
(***************************************************************************)
Texts ==
  UNION {[1..n -> Alphabet] \cup [1..n -> SecondaryAlphabet] : n \in 0..MaxLen}

\* the sentences of a text that reach the hard-split loop (line 193): the
\* text is split at all (140), their paragraph is not blank (151) and too
\* long for a chunk (154, 166), and so are they (175, 187)
ForcedSentences(input, chunkSize) ==
  LET safe       == SafeChunkSize(chunkSize)
      paragraphs == SplitParagraphs(input)
  IN  IF Len(input) <= chunkSize THEN {}
      ELSE UNION {
             LET sentences == MatchSentences(paragraphs[k])
             IN  IF Trim(paragraphs[k]) = <<>> \/ Len(paragraphs[k]) <= safe THEN {}
                 ELSE {sentences[j] : j \in {x \in 1..Len(sentences) :
                                               Len(sentences[x]) > safe}}
             : k \in 1..Len(paragraphs)}

ChunkInit ==
  /\ SysInit
  /\ RetainIdle
  /\ RespIdle
  /\ SynthIdle
  /\ TrackIdle
  /\ ctext \in Texts
  /\ cpc = "call"
  /\ cout = <<>>
  /\ remaining = <<>>
  /\ splitIndex = -1
  /\ part = <<>>

\* the call returns without having entered the hard-split loop
SplitCall ==
  /\ cpc = "call"
  /\ ForcedSentences(ctext, ChunkSize) = {}
  /\ cout' = splitTextIntoChunks(ctext, ChunkSize)
  /\ cpc' = "returned"
  /\ UNCHANGED <<ctext, remaining, splitIndex, part, sysVars, synthVars, trackVars, retainVars, respVars>>

\* line 193: let remaining = sentence
ForcedEnter(sentence) ==
  /\ cpc = "call"
  /\ remaining' = sentence
  /\ cpc' = "forced"
  /\ UNCHANGED <<ctext, cout, splitIndex, part, sysVars, synthVars, trackVars, retainVars, respVars>>

\* lines 194-212: one iteration that pushes a slice
ForcedIterate ==
  /\ cpc = "forced"
  /\ Len(remaining) > SafeChunkSize(ChunkSize)
  /\ LET st == ForcedSplitStep(remaining, SafeChunkSize(ChunkSize))
     IN  /\ splitIndex' = st.splitIndex
         /\ part' = st.part
         /\ remaining' = st.rest
  /\ UNCHANGED <<ctext, cpc, cout, sysVars, synthVars, trackVars, retainVars, respVars>>

\* lines 194-198: the loop ends, and later the call returns
ForcedExit ==
  /\ cpc = "forced"
  /\ Len(remaining) <= SafeChunkSize(ChunkSize)
  /\ cout' = splitTextIntoChunks(ctext, ChunkSize)
  /\ cpc' = "returned"
  /\ UNCHANGED <<ctext, remaining, splitIndex, part, sysVars, synthVars, trackVars, retainVars, respVars>>

ChunkNext ==
  \/ SplitCall
  \/ \E sentence \in ForcedSentences(ctext, ChunkSize) : ForcedEnter(sentence)
  \/ ForcedIterate
  \/ ForcedExit

ChunkSpec == ChunkInit /\ [][ChunkNext]_vars


(***************************************************************************)
(* Claims about the chunker (checked under ChunkSpec)                      *)
(***************************************************************************)
Safe == SafeChunkSize(ChunkSize)

\* C6: every chunk that splitTextIntoChunks returns, for every input text
\* (also one returned as a single chunk, also multi-byte text), is at most
\* ByteLimit (5000 for chunkSize 1000) bytes long in UTF-8.
C6_ChunkBytesWithinLimit ==
  cpc = "returned" => \A k \in 1..Len(cout) : ByteLength(cout[k]) <= ByteLimit

\* C6 witness: a text of wide characters was split and one of its chunks is
\* a full forced slice of three-byte characters.
C6_Witness ==
  /\ cpc = "returned"
  /\ Len(ctext) > ChunkSize
  /\ \E k \in 1..Len(cout) : ByteLength(cout[k]) = 3 * Safe + 1

\* C7: every iteration of the hard-split loop that pushes a slice leaves a
\* strictly shorter fragment (also when it splits at index 0), so the loop
\* ends after at most as many iterations as the sentence has characters.
C7_ForcedLoopProgress ==
  [][(cpc = "forced" /\ cpc' = "forced") => Len(remaining') < Len(remaining)]_vars

\* C7 witness: an iteration split at index 0 (the only space within the safe
\* size led the fragment), pushed "." and left a non-empty fragment.
C7_Witness ==
  /\ cpc = "forced"
  /\ splitIndex = 0
  /\ part = <<".">>
  /\ remaining # <<>>

\* C8 (as claimed): for a text without '.', '!' or '?', every slice the
\* hard-split loop pushes is at most the safe size long, the appended
\* sentence-ending mark included.
C8_ForcedSliceWithinSafeSize ==
  (/\ cpc = "forced"
   /\ splitIndex # -1
   /\ \A k \in 1..Len(ctext) : ~IsPunct(ctext[k]))
  => Len(part) <= Safe

RECURSIVE NonWs(_)
NonWs(str) ==
  IF str = <<>> THEN <<>>
  ELSE IF IsWs(Head(str)) THEN NonWs(Tail(str))
  ELSE <<Head(str)>> \o NonWs(Tail(str))

\* a occurs in b as a subsequence
RECURSIVE IsSubsequence(_, _)
IsSubsequence(a, b) ==
  IF a = <<>> THEN TRUE
  ELSE IF b = <<>> THEN FALSE
  ELSE IF Head(a) = Head(b) THEN IsSubsequence(Tail(a), Tail(b))
  ELSE IsSubsequence(a, Tail(b))

\* C10 (as claimed): the chunks, concatenated in order, hold every
\* non-whitespace character of the input, in the input's order.
C10_ContentPreserved ==
  cpc = "returned" => IsSubsequence(NonWs(ctext), NonWs(Concat(cout)))


(***************************************************************************)
(* synthesizeSpeech on its own (src/text-to-speech.js:96-131), against a   *)
(* service that may accept, reject as too long, or fail on any submission  *)
(***************************************************************************)
\* how many submissions of one call are followed
MaxAttempts == 4

\* texts of up to twice the chunk size, so that some exceed the byte limit
\* by more than one truncation step
SynthTexts == UNION {[1..n -> {"a", "W"}] : n \in 0..(2 * ChunkSize)}

SynthInit ==
  /\ SysInit
  /\ RetainIdle
  /\ RespIdle
  /\ ChunkIdle
  /\ TrackIdle
  /\ sinput \in SynthTexts
  /\ stext = sinput
  /\ spc = "call"
  /\ ssubmitted = <<>>
  /\ attempts = 0

\* lines 98-119: the submission is accepted and the audio returned
SubmitAccepted ==
  /\ spc = "call"
  /\ attempts < MaxAttempts
  /\ ssubmitted' = Truncated(stext)
  /\ attempts' = attempts + 1
  /\ spc' = "returned"
  /\ UNCHANGED <<sinput, stext, sysVars, chunkVars, trackVars, retainVars, respVars>>

\* lines 120-127: rejected as too long, synthesizeSpeech calls itself
SubmitTooLong ==
  /\ spc = "call"
  /\ attempts < MaxAttempts
  /\ ssubmitted' = Truncated(stext)
  /\ attempts' = attempts + 1
  /\ stext' = Shrunk(Truncated(stext))
  /\ UNCHANGED <<sinput, spc, sysVars, chunkVars, trackVars, retainVars, respVars>>

\* lines 120-129: any other error is thrown to the caller
SubmitFailed ==
  /\ spc = "call"
  /\ attempts < MaxAttempts
  /\ ssubmitted' = Truncated(stext)
  /\ attempts' = attempts + 1
  /\ spc' = "thrown"
  /\ UNCHANGED <<sinput, stext, sysVars, chunkVars, trackVars, retainVars, respVars>>

SynthNext ==
  \/ SubmitAccepted
  \/ SubmitTooLong
  \/ SubmitFailed

SynthSpec == SynthInit /\ [][SynthNext]_vars

(***************************************************************************)
(* The usage tracker on its own (src/index.js:303-390): callers of          *)
(* trackUsage and getCurrentMonthStats on one usage-stats.json, each await  *)
(* a step of its own                                                        *)
(***************************************************************************)
\* how many calls a run makes
MaxCalls == 3

\* the charCount values passed to trackUsage
Counts == {0, 2, 3}

PrevMonthKey == "2026-10"

\* the history found at the start: none, an earlier month as trackUsage
\* writes it, an earlier month written before articleCount was kept
InitLedgers ==
  { <<>>,
    PrevMonthKey :> [chirpChars |-> 3, totalChars |-> 3, articleCount |-> 1, costEstimate |-> 0],
    PrevMonthKey :> [chirpChars |-> 3, totalChars |-> 3, costEstimate |-> 0] }

TrackInit ==
  /\ SysInit
  /\ RetainIdle
  /\ RespIdle
  /\ ChunkIdle
  /\ SynthIdle
  /\ uledger \in InitLedgers
  /\ upc = [c \in Callers |-> "idle"]
  /\ ukind = [c \in Callers |-> "query"]
  /\ ucount = [c \in Callers |-> 0]
  /\ ustats = [c \in Callers |-> <<>>]
  /\ uret = [c \in Callers |-> NoRet]
  /\ ustarted = 0
  /\ urecorded = [calls |-> 0, chars |-> 0]
  /\ uoverlap = FALSE
  /\ udraw = [c \in Callers |-> NoDraw]
  /\ useen = [c \in Callers |-> 0]

\* lines 346-366: getCurrentMonthStats loads the document and returns
GetCurrentMonthStats(c) ==
  /\ upc[c] = "idle"
  /\ ustarted < MaxCalls
  /\ ustarted' = ustarted + 1
  /\ ukind' = [ukind EXCEPT ![c] = "query"]
  /\ ucount' = [ucount EXCEPT ![c] = 0]
  /\ uret' = [uret EXCEPT ![c] = getCurrentMonthStats(uledger)]
  /\ upc' = [upc EXCEPT ![c] = "returned"]
  /\ UNCHANGED <<uledger, ustats, urecorded, uoverlap, sysVars, chunkVars, synthVars, voiceVars, retainVars, respVars>>

\* trackUsage(0) that records the call like any other
TrackUsageZeroRecorded(c) ==
  /\ upc[c] = "idle"
  /\ ustarted < MaxCalls
  /\ ustarted' = ustarted + 1
  /\ ukind' = [ukind EXCEPT ![c] = "track"]
  /\ ucount' = [ucount EXCEPT ![c] = 0]
  /\ uledger' = Tracked(uledger, MonthKey, 0)
  /\ uret' = [uret EXCEPT ![c] = getCurrentMonthStats(uledger')]
  /\ upc' = [upc EXCEPT ![c] = "returned"]
  /\ UNCHANGED <<ustats, urecorded, uoverlap, sysVars, chunkVars, synthVars, voiceVars, retainVars, respVars>>

\* line 304: trackUsage(0) returns what getCurrentMonthStats returns
TrackUsageZero(c) ==
  /\ upc[c] = "idle"
  /\ ustarted < MaxCalls
  /\ ustarted' = ustarted + 1
  /\ ukind' = [ukind EXCEPT ![c] = "track"]
  /\ ucount' = [ucount EXCEPT ![c] = 0]
  /\ uret' = [uret EXCEPT ![c] = getCurrentMonthStats(uledger)]
  /\ upc' = [upc EXCEPT ![c] = "returned"]
  /\ UNCHANGED <<uledger, ustats, urecorded, uoverlap, sysVars, chunkVars, synthVars, voiceVars, retainVars, respVars>>

\* lines 306-329: the document is loaded and the month updated in memory
TrackUsageLoad(c, charCount) ==
  /\ upc[c] = "idle"
  /\ charCount # 0
  /\ ustarted < MaxCalls
  /\ ustarted' = ustarted + 1
  /\ ukind' = [ukind EXCEPT ![c] = "track"]
  /\ ucount' = [ucount EXCEPT ![c] = charCount]
  /\ ustats' = [ustats EXCEPT ![c] = Tracked(uledger, MonthKey, charCount)]
  /\ upc' = [upc EXCEPT ![c] = "loaded"]
  /\ uoverlap' = (uoverlap \/ \E d \in Callers \ {c} : upc[d] = "loaded")
  /\ UNCHANGED <<uledger, uret, urecorded, sysVars, chunkVars, synthVars, voiceVars, retainVars, respVars>>

\* the save of line 331 made on the document read again at that moment
TrackUsageSaveMerged(c) ==
  /\ upc[c] = "loaded"
  /\ uledger' = Tracked(uledger, MonthKey, ucount[c])
  /\ uret' = [uret EXCEPT ![c] = getCurrentMonthStats(uledger')]
  /\ urecorded' = [calls |-> urecorded.calls + 1, chars |-> urecorded.chars + ucount[c]]
  /\ upc' = [upc EXCEPT ![c] = "returned"]
  /\ UNCHANGED <<ukind, ucount, ustats, ustarted, uoverlap, sysVars, chunkVars, synthVars, voiceVars, retainVars, respVars>>

\* lines 331-340: the document in memory is saved whole, and the month
\* returned with the lifetime totals of that document
TrackUsageSave(c) ==
  /\ upc[c] = "loaded"
  /\ uledger' = ustats[c]
  /\ uret' = [uret EXCEPT ![c] = WithLifetime(ustats[c][MonthKey], ustats[c])]
  /\ urecorded' = [calls |-> urecorded.calls + 1, chars |-> urecorded.chars + ucount[c]]
  /\ upc' = [upc EXCEPT ![c] = "returned"]
  /\ UNCHANGED <<ukind, ucount, ustats, ustarted, uoverlap, sysVars, chunkVars, synthVars, voiceVars, retainVars, respVars>>

\* line 331: saveJsonFile throws, and so does trackUsage
TrackUsageSaveFailed(c) ==
  /\ upc[c] = "loaded"
  /\ uret' = [uret EXCEPT ![c] = NoRet]
  /\ upc' = [upc EXCEPT ![c] = "thrown"]
  /\ UNCHANGED <<uledger, ukind, ucount, ustats, ustarted, urecorded, uoverlap,
                 sysVars, chunkVars, synthVars, voiceVars, retainVars, respVars>>

\* the caller has taken the result and may call again
Consume(c) ==
  /\ upc[c] \in {"returned", "thrown", "voiced"}
  /\ upc' = [upc EXCEPT ![c] = "idle"]
  /\ ustats' = [ustats EXCEPT ![c] = <<>>]
  /\ uret' = [uret EXCEPT ![c] = NoRet]
  /\ udraw' = [udraw EXCEPT ![c] = NoDraw]
  /\ useen' = [useen EXCEPT ![c] = 0]
  /\ UNCHANGED <<uledger, ukind, ucount, ustarted, urecorded, uoverlap,
                 sysVars, chunkVars, synthVars, retainVars, respVars>>

\* the values Math.random() returns, in quarters of [0, 1)
Randoms == 0..3

\* CHIRP_FEMALE_VOICES and CHIRP_MALE_VOICES (lines 243-276), two of each
CHIRP_FEMALE_VOICES == <<"en-US-Chirp3-HD-Achernar", "en-US-Chirp3-HD-Aoede">>

CHIRP_MALE_VOICES == <<"en-US-Chirp3-HD-Bellatrix", "en-US-Chirp3-HD-Canopus">>

\* lines 398-409 for the two values r1 and r2 (quarters) of Math.random()
getOptimalVoice(r1, r2) ==
  LET isMale == r1 * 2 < 4
      pool   == IF isMale THEN CHIRP_MALE_VOICES ELSE CHIRP_FEMALE_VOICES
  IN  [languageCode |-> "en-US",
       name         |-> pool[((r2 * Len(pool)) \div 4) + 1],
       ssmlGender   |-> IF isMale THEN "MALE" ELSE "FEMALE"]

\* the voice switching of an earlier design: the economical voice once the
\* month's usage is over the free allowance
GetOptimalVoiceByUsage(c, r1, r2) ==
  /\ upc[c] = "idle"
  /\ ukind' = [ukind EXCEPT ![c] = "voice"]
  /\ ucount' = [ucount EXCEPT ![c] = 0]
  /\ udraw' = [udraw EXCEPT ![c] = <<r1, r2>>]
  /\ useen' = [useen EXCEPT ![c] = MonthOf(uledger, MonthKey).totalChars]
  /\ uret' = [uret EXCEPT ![c] =
                IF MonthOf(uledger, MonthKey).totalChars > FreeChars
                THEN [languageCode |-> "en-US", name |-> "en-US-Journey-F",
                      ssmlGender |-> "FEMALE"]
                ELSE getOptimalVoice(r1, r2)]
  /\ upc' = [upc EXCEPT ![c] = "voiced"]
  /\ UNCHANGED <<uledger, ustats, ustarted, urecorded, uoverlap, sysVars, chunkVars, synthVars, retainVars, respVars>>

\* lines 397-410: getOptimalVoice draws twice and returns the voice
GetOptimalVoice(c, r1, r2) ==
  /\ upc[c] = "idle"
  /\ ukind' = [ukind EXCEPT ![c] = "voice"]
  /\ ucount' = [ucount EXCEPT ![c] = 0]
  /\ udraw' = [udraw EXCEPT ![c] = <<r1, r2>>]
  /\ useen' = [useen EXCEPT ![c] = MonthOf(uledger, MonthKey).totalChars]
  /\ uret' = [uret EXCEPT ![c] = getOptimalVoice(r1, r2)]
  /\ upc' = [upc EXCEPT ![c] = "voiced"]
  /\ UNCHANGED <<uledger, ustats, ustarted, urecorded, uoverlap, sysVars, chunkVars, synthVars, retainVars, respVars>>

TrackNext ==
  \E c \in Callers :
    \/ GetCurrentMonthStats(c)
    \/ TrackUsageZero(c)
    \/ \E charCount \in Counts : TrackUsageLoad(c, charCount)
    \/ TrackUsageSave(c)
    \/ TrackUsageSaveFailed(c)
    \/ Consume(c)
    \/ \E r1, r2 \in Randoms : GetOptimalVoice(c, r1, r2)

TrackSpec == TrackInit /\ [][TrackNext]_vars

(***************************************************************************)
(* Claims about the pipeline (checked under Spec, C5 under SynthSpec)      *)
(***************************************************************************)
\* C1 (as claimed): when an artifact that textToAudio saved for a title is
\* in the store at the time textToAudio is called again for that title, the
\* call makes no synthesis call: it never reaches the synthesis loop.
C1_ArtifactGateIdempotent ==
  \A p \in Procs : obs[p].prior => pc[p] \notin {"synth", "save"}

\* C2: an invocation whose URL, or that URL with the trailing slash added
\* or removed, had an entry in the index when the index was loaded only
\* reads the statistics and regenerates the feed: it never synthesizes, and
\* none of its steps changes the index, the store or the ledger.
C2_IndexGate ==
  /\ [](\A p \in Procs : obs[p].held =>
          /\ pc[p] \in {"stats", "finalize"}
          /\ totalCharsProcessed[p] = 0)
  /\ [][\A p \in Procs : (obs[p].held /\ pc'[p] # pc[p]) =>
          /\ index' = index
          /\ store' = store
          /\ ledger' = ledger]_vars

\* C2 witness: an invocation found its URL in the index only under the
\* alternative spelling and has gone on to the feed regeneration.
C2_Witness ==
  \E p \in Procs :
    /\ obs[p].held
    /\ pc[p] = "finalize"
    /\ articleUrl[p] \notin DOMAIN index
    /\ AltUrl(articleUrl[p]) \in DOMAIN index

\* C3 (as claimed): an invocation that starts after an invocation for the
\* same item failed at chunk i > 0 never submits one of the chunks 0..i-1
\* the service had accepted: it resumes from the first missing chunk.
C3_RetryResumes ==
  \A p \in Procs : pc[p] = "synth" => i[p] >= obs[p].resume

IsPrefix(a, b) == Len(a) <= Len(b) /\ SubSeq(b, 1, Len(a)) = a

\* the audio holds one piece per chunk of the text, in order, each the
\* audio of the chunk or of a shortened submission of it
CompleteAudio(content, input) ==
  LET chunks == splitTextIntoChunks(input, ChunkSize)
  IN  /\ Len(content) = Len(chunks)
      /\ \A k \in 1..Len(chunks) : IsPrefix(content[k], chunks[k])

C5_ShrinkRetryBounded == attempts <= Len(sinput) + 1


\* C11: whenever synthesizeSpeech submits a text that was longer than
\* ByteLimit (5000) bytes, what it submits is at most ByteMargin (4800)
\* bytes long and is a prefix of that text; the truncation loop, which
\* removes TruncStep characters per step, has ended by then.
C11_TruncatedBeforeSubmission ==
  [][(attempts' = attempts + 1 /\ ByteLength(stext) > ByteLimit) =>
       /\ ByteLength(ssubmitted') <= ByteMargin
       /\ IsPrefix(ssubmitted', stext)]_vars

\* C11 witness: a text over the limit was submitted after more than one
\* step of the truncation loop.
C11_Witness ==
  /\ attempts = 1
  /\ ByteLength(sinput) > ByteLimit
  /\ Len(sinput) - Len(ssubmitted) >= 2 * TruncStep
  /\ ByteLength(ssubmitted) <= ByteMargin


\* C12: an invocation whose article text is empty or only whitespace ends
\* at the check that opens textToAudio: its next step ends the invocation,
\* so it never calls the synthesis service, and that step changes neither
\* the store (no artifact), nor the index, nor the usage ledger.
C12_EmptyTextFailsImmediately ==
  [][\A p \in Procs :
       (/\ pc[p] = "fetch"
        /\ Trim(ArticleAt(articleUrl[p]).content) = <<>>
        /\ pc'[p] # pc[p])
       => /\ pc'[p] = "idle"
          /\ store' = store
          /\ index' = index
          /\ ledger' = ledger]_vars

\* C12 witness: an invocation has ended at the empty-text check, and store,
\* index and ledger are as they were before any invocation.
C12_Witness ==
  \E p \in Procs :
    /\ obs[p].empty
    /\ pc[p] = "idle"
    /\ store = <<>>
    /\ index = <<>>
    /\ ledger = <<>>


(***************************************************************************)
(* Claims about the usage tracker (checked under TrackSpec)                *)
(***************************************************************************)
\* the month's bucket of the saved history
SavedMonth == MonthOf(uledger, MonthKey)

\* C13: in a month that starts without a bucket, as long as no trackUsage
\* call loaded the history while another was between its load and its save,
\* the month's character total is the sum of
\* the counts of the calls that saved, articleCount is their number, and
\* costEstimate is max(0, total - FreeChars) priced at PricePerMillion per
\* FreeChars characters (1,000,000 in the code).
C13_TrackUsageAdditive ==
  ~uoverlap =>
    /\ SavedMonth.totalChars = urecorded.chars
    /\ SavedMonth.articleCount = urecorded.calls
    /\ SavedMonth.costEstimate = Max(0, urecorded.chars - FreeChars) * PricePerMillion

\* C13 witness: three calls in a row have saved and taken the month past
\* the free allowance.
C13_Witness ==
  /\ ~uoverlap
  /\ urecorded.calls = 3
  /\ SavedMonth.totalChars > FreeChars
  /\ SavedMonth.costEstimate > 0

\* C14: a call that returns without an intermediate step, which is what
\* getCurrentMonthStats and trackUsage with charCount 0 do, leaves the
\* history as it was and returns what getCurrentMonthStats computes from
\* it; trackUsage goes on to load and save only for a non-zero charCount.
C14_ZeroCountIsQuery ==
  [][\A c \in Callers :
       /\ (upc[c] = "idle" /\ upc'[c] = "returned") =>
            /\ uledger' = uledger
            /\ uret'[c] = getCurrentMonthStats(uledger)
            /\ (ukind'[c] = "track" => ucount'[c] = 0)
       /\ (upc[c] = "idle" /\ upc'[c] = "loaded") => ucount'[c] # 0]_vars

\* C14 witness: trackUsage(0) and getCurrentMonthStats have both returned,
\* with the same value, from a history that holds usage of this month.
C14_Witness ==
  \E c, d \in Callers :
    /\ upc[c] = "returned" /\ ukind[c] = "track" /\ ucount[c] = 0
    /\ upc[d] = "returned" /\ ukind[d] = "query"
    /\ uret[c] = uret[d]
    /\ uret[c].totalChars > 0

\* a field of a month's bucket, 0 when the month or the field is missing
BucketField(history, key, field) ==
  IF key \in DOMAIN history /\ field \in DOMAIN history[key]
  THEN history[key][field] ELSE 0

\* the sum of a field over the months of a history
SumOfMonths(history, field) ==
  BucketField(history, PrevMonthKey, field) + BucketField(history, MonthKey, field)

\* C15: the lifetime aggregates a call returns are the sums, over all month
\* buckets of the history as the call leaves it, of the character totals
\* and of the article counts; after a trackUsage call that history holds
\* the count just recorded, so the aggregates include it.
C15_LifetimeAggregates ==
  [][\A c \in Callers :
       (upc[c] # "returned" /\ upc'[c] = "returned") =>
         /\ DOMAIN uledger' \subseteq {PrevMonthKey, MonthKey}
         /\ uret'[c].lifetimeTotalChars = SumOfMonths(uledger', "totalChars")
         /\ uret'[c].lifetimeArticleCount = SumOfMonths(uledger', "articleCount")
         /\ upc[c] = "loaded" =>
              /\ uledger'[MonthKey].totalChars >= ucount[c]
              /\ uledger'[MonthKey].articleCount >= 1
              /\ uret'[c].lifetimeTotalChars >= ucount[c]]_vars

\* C15 witness: trackUsage has returned lifetime totals that span an
\* earlier month and this one.
C15_Witness ==
  \E c \in Callers :
    /\ upc[c] = "returned" /\ ukind[c] = "track" /\ ucount[c] > 0
    /\ PrevMonthKey \in DOMAIN uledger
    /\ uret[c].lifetimeTotalChars = uledger[PrevMonthKey].totalChars + ucount[c]
    /\ uret[c].lifetimeArticleCount = 2

\* C18: every save of trackUsage replaces the history by the document the
\* call loaded, updated with its own count, whatever was saved in between;
\* so the saved month never holds more than was recorded, and can hold less.
C18_LedgerLastWriterWins ==
  /\ [](/\ SavedMonth.totalChars <= urecorded.chars
        /\ SavedMonth.articleCount <= urecorded.calls)
  /\ [][\A c \in Callers :
          (upc[c] = "loaded" /\ upc'[c] = "returned") => uledger' = ustats[c]]_vars

\* C18 witness: two calls that overlapped have both saved and returned, and
\* the saved month holds less than the sum of their counts and fewer
\* articles than there were calls.
C18_Witness ==
  /\ uoverlap
  /\ urecorded.calls = 2
  /\ \A c \in Callers : upc[c] = "returned" /\ ukind[c] = "track" /\ ucount[c] > 0
  /\ SavedMonth.totalChars < urecorded.chars
  /\ SavedMonth.articleCount < urecorded.calls


(***************************************************************************)
(* Claims about the pipeline, continued (checked under Spec)               *)
(***************************************************************************)
\* the buffers 1..k of a list joined from the left
RECURSIVE JoinedUpTo(_, _)
JoinedUpTo(buffers, k) ==
  IF k = 0 THEN <<>> ELSE JoinedUpTo(buffers, k - 1) \o buffers[k]

\* C16: within one textToAudio invocation the chunk under submission is the
\* next one in ordinal order, after the audio of all chunks before it has
\* come back: the buffers collected are those of chunks 1..i, each the audio
\* of (a prefix of) its chunk; a step that collects a buffer appends it; the
\* audio saved is the buffers joined in that order, and for a single chunk
\* it is that chunk's buffer as returned.
C16_ChunksInOrder ==
  /\ [](\A p \in Procs :
          pc[p] \in {"synth", "save"} =>
            /\ Len(audioChunks[p]) = i[p]
            /\ i[p] <= Len(textChunks[p])
            /\ \A k \in 1..i[p] :
                 \E t \in {SubSeq(textChunks[p][k], 1, n) : n \in 0..Len(textChunks[p][k])} :
                   audioChunks[p][k] = Audio(t)
            /\ pc[p] = "synth" =>
                 /\ i[p] < Len(textChunks[p])
                 /\ IsPrefix(text[p], textChunks[p][i[p] + 1])
            /\ pc[p] = "save" => i[p] = Len(textChunks[p]))
  /\ [][\A p \in Procs :
          /\ (pc[p] = "synth" /\ audioChunks'[p] # audioChunks[p] /\ pc'[p] # "idle") =>
               /\ audioChunks'[p] = Append(audioChunks[p], Audio(Truncated(text[p])))
               /\ i'[p] = i[p] + 1
          /\ (pc[p] = "save" /\ pc'[p] = "commit") =>
               LET saved == store'[ObjectKey(filename[p], "audio")]
               IN  /\ saved = JoinedUpTo(audioChunks[p], Len(textChunks[p]))
                   /\ Len(textChunks[p]) = 1 => saved = audioChunks[p][1]]_vars

\* C16 witness: the bucket holds the audio of a two-chunk article, chunk 1
\* before chunk 2, and that of a single-chunk article.
C16_Witness ==
  \E id1, id2 \in UUIDS :
    LET k1 == ObjectKey(createSafeFilename(T1, id1), "audio")
        k2 == ObjectKey(createSafeFilename(T2, id2), "audio")
        c1 == splitTextIntoChunks(ArticleAt(<<"u">>).content, ChunkSize)
        c2 == splitTextIntoChunks(ArticleAt(<<"v">>).content, ChunkSize)
    IN  /\ Len(c1) = 2 /\ c1[1] # c1[2] /\ Len(c2) = 1
        /\ k1 \in DOMAIN store /\ store[k1] = Audio(c1[1]) \o Audio(c1[2])
        /\ k2 \in DOMAIN store /\ store[k2] = Audio(Truncated(c2[1]))


\* C17: the index an invocation saves holds the entries of the copy it
\* loaded when it started and its own entry, and nothing else, whatever
\* other invocations saved in between; so an invocation that commits after
\* another one that started before its commit drops the other's entry.
C17_IndexLastWriterWins ==
  [][\A p \in Procs :
       (pc[p] = "commit" /\ pc'[p] = "stats") =>
         /\ DOMAIN index' = DOMAIN processedArticles[p] \cup {article[p].link}
         /\ \A u \in DOMAIN processedArticles[p] \ {article[p].link} :
              index'[u] = processedArticles[p][u]
         /\ index'[article[p].link].title = article[p].title
         /\ index'[article[p].link].audioPath = audioPath[p]]_vars

\* C17 witness: two invocations for different articles have both saved
\* their artifact, the index and the ledger and have only the response
\* left to send, and the index holds the entry of one of them only.
C17_Witness ==
  \E p, q \in Procs :
    /\ p # q
    /\ pc[p] = "finalize" /\ pc[q] = "finalize"
    /\ totalCharsProcessed[p] > 0 /\ totalCharsProcessed[q] > 0
    /\ article[p].title # article[q].title
    /\ ObjectKey(audioPath[p], "audio") \in DOMAIN store
    /\ ObjectKey(audioPath[q], "audio") \in DOMAIN store
    /\ DOMAIN index = {article[q].link}

\* C19: the gate at the start of an invocation decides from the index alone
\* and the existence check from the bucket alone: an invocation goes on to
\* fetch exactly when the index it loads holds neither the URL nor its
\* trailing-slash alternative, and on to synthesis exactly when the name it
\* drew is not in the bucket, whatever other invocations are running.
C19_GateReadsStoreOnly ==
  [][\A p \in Procs :
       /\ (pc[p] = "idle" /\ pc'[p] # "idle") =>
            (pc'[p] = "fetch" <=>
               /\ articleUrl'[p] # NoUrl
               /\ ~AlreadyProcessed(index, articleUrl'[p]))
       /\ (pc[p] = "fetch" /\ pc'[p] \notin {"idle", "fetch"}) =>
            /\ pc'[p] = "commit" <=> ObjectKey(filename'[p], "audio") \in DOMAIN store
            /\ pc'[p] \in {"synth", "save", "commit"}]_vars

\* C19 witness: two invocations for the same URL have both passed both
\* checks and the service has synthesized every chunk of the article for
\* each of them.
C19_Witness ==
  \E p, q \in Procs :
    /\ p # q
    /\ articleUrl[p] = articleUrl[q] /\ articleUrl[p] # NoUrl
    /\ pc[p] = "save" /\ pc[q] = "save"
    /\ ~obs[p].held /\ ~obs[q].held
    /\ Len(audioChunks[p]) = Len(textChunks[p]) /\ Len(audioChunks[p]) >= 1
    /\ Len(audioChunks[q]) = Len(textChunks[q]) /\ Len(audioChunks[q]) >= 1

\* C20: two invocations of textToAudio with the same title compute the same
\* artifact name.
C20_ArtifactNameDeterministic ==
  \A p, q \in Procs :
    (/\ pc[p] \in {"synth", "save", "commit"}
     /\ pc[q] \in {"synth", "save", "commit"}
     /\ article[p].title = article[q].title)
    => filename[p] = filename[q]


\* the characters of the texts the service accepted, one text per buffer
RECURSIVE AcceptedChars(_)
AcceptedChars(buffers) ==
  IF buffers = <<>> THEN 0 ELSE Len(Head(buffers)[1]) + AcceptedChars(Tail(buffers))

\* C21: the character count an invocation records in the usage ledger is
\* the number of characters of the texts the synthesis service accepted
\* from it.
C21_UsageMatchesBilling ==
  [][\A p \in Procs :
       (pc[p] = "trackSave" /\ pc'[p] = "finalize") =>
         totalCharsProcessed[p] = AcceptedChars(audioChunks[p])]_vars

\* C22: an invocation without an article URL makes no synthesis call and
\* leaves the index and the usage ledger as they are: from its start to its
\* end it goes through the stats read and the finalization only.
C22_NoUrlRegeneratesOnly ==
  [][\A p \in Procs :
       /\ (pc[p] = "idle" /\ pc'[p] # "idle" /\ articleUrl'[p] = NoUrl) =>
            /\ pc'[p] = "stats"
            /\ index' = index /\ ledger' = ledger /\ store' = store
       /\ (pc[p] # "idle" /\ articleUrl[p] = NoUrl /\ pc'[p] # pc[p]) =>
            /\ <<pc[p], pc'[p]>> \in {<<"stats", "finalize">>, <<"stats", "idle">>,
                                     <<"finalize", "idle">>}
            /\ audioChunks'[p] = <<>> /\ textChunks'[p] = <<>>
            /\ index' = index /\ ledger' = ledger]_vars

\* C22 witness: with an article in the index and usage in the ledger, an
\* invocation without URL has read the stats and is about to finalize.
C22_Witness ==
  \E p \in Procs :
    /\ pc[p] = "finalize" /\ articleUrl[p] = NoUrl
    /\ index # <<>>
    /\ MonthOf(ledger, MonthKey).totalChars > 0
    /\ updatedStats[p] = ledger[MonthKey]

\* C24: the character total and the article count of the month in the
\* ledger never go down.
C24_UsageOnlyGrows ==
  [][/\ MonthOf(ledger', MonthKey).totalChars >= MonthOf(ledger, MonthKey).totalChars
     /\ MonthOf(ledger', MonthKey).articleCount >= MonthOf(ledger, MonthKey).articleCount]_vars

\* C28: once the invocations are over, an index that holds an article goes
\* with a ledger that holds usage of the month (each committed article has
\* been recorded).
C28_CommittedIsRecorded ==
  (\A p \in Procs : pc[p] = "idle") =>
    (index # <<>> => MonthOf(ledger, MonthKey).articleCount >= 1)


(***************************************************************************)
(* Claims about the chunker, continued (checked under ChunkSpec)           *)
(***************************************************************************)
\* a secondary punctuation mark followed by whitespace and further text: a
\* place where a split at secondary punctuation would cut
HasSecondaryBoundary(s) ==
  \E k \in 1..(Len(s) - 2) :
    /\ s[k] \in {",", ";", ":", "(", ")"}
    /\ IsWs(s[k + 1])
    /\ \E j \in (k + 2)..Len(s) : ~IsWs(s[j])

\* C26: the hard-split loop is entered only with a fragment that a split at
\* secondary punctuation has left longer than the safe size, that is, with
\* a fragment longer than the safe size that has no secondary punctuation
\* boundary left in it.
C26_SecondarySplitFirst ==
  [][(cpc = "call" /\ cpc' = "forced") =>
       /\ Len(remaining') > Safe
       /\ ~HasSecondaryBoundary(remaining')]_vars


MaxOps == 2

RLinks == {"u", "v", "w"}

\* the wall clock, in days
Now == 4

\* the day generatePodcast processed the article of a link
ProcessedOn(link) == IF link = "u" THEN 1 ELSE IF link = "v" THEN 2 ELSE 3

\* the name textToAudio gave the artifact of a link
FileOf(link) == [slug |-> <<link>>, id |-> "id1"]

\* the public URL saveToCloudStorage returns (src/unnamed/part_004:159),
\* as its path below the bucket
PublicUrl(fileName, destination) == <<destination, fileName>>

\* path.basename
Basename(path) == path[Len(path)]

\* no destination given: the object is looked up at the root of the bucket
NoDestination == ""

\* the entry generatePodcast writes for an article (src/function.js:95-101)
CacheEntry(link) ==
  [title         |-> <<"t", link>>,
   processedDate |-> ProcessedOn(link),
   audioPath     |-> PublicUrl(FileOf(link), "audio"),
   description   |-> <<"d", link>>]

\* new Date(info.processedDate || new Date()): an ISO string written by
\* toISOString() parses to the instant it was written from
DateOf(info) == IF "processedDate" \in DOMAIN info THEN info.processedDate ELSE Now

\* lines 33-42: the links of the index, newest first
RECURSIVE SortedNewestFirst(_, _)
SortedNewestFirst(doc, links) ==
  IF links = {} THEN <<>>
  ELSE LET newest == CHOOSE l \in links :
                       \A m \in links : DateOf(doc[m]) <= DateOf(doc[l])
       IN  <<newest>> \o SortedNewestFirst(doc, links \ {newest})

\* the filter of lines 46-62 for the article at (0-based) position k
Kept(opts, doc, link, k) ==
  /\ ~(opts.maxEpisodes > 0 /\ k >= opts.maxEpisodes)
  /\ ~(opts.maxAgeDays > 0 /\ Now - DateOf(doc[link]) > opts.maxAgeDays)

\* lines 46-62
ToKeep(opts, doc) ==
  LET articles == SortedNewestFirst(doc, DOMAIN doc)
  IN  SelectSeq([k \in 1..Len(articles) |-> [link |-> articles[k], pos |-> k - 1]],
                LAMBDA a : Kept(opts, doc, a.link, a.pos))

\* line 65
ToRemove(opts, doc) ==
  LET articles == SortedNewestFirst(doc, DOMAIN doc)
      keep     == {ToKeep(opts, doc)[k].link : k \in 1..Len(ToKeep(opts, doc))}
  IN  SelectSeq(articles, LAMBDA l : l \notin keep)

\* lines 81-88: the document written for the articles kept
NewProcessedArticles(opts, doc) ==
  LET keep == ToKeep(opts, doc)
  IN  [l \in {keep[k].link : k \in 1..Len(keep)} |->
         [title         |-> doc[l].title,
          processedDate |-> DateOf(doc[l]),
          audioPath     |-> doc[l].audioPath]]

\* the test of line 79 without its dryRun part
ProcessRemovalsAlways(opts, toRemove) == Len(toRemove) > 0

\* line 79: if (!settings.dryRun && toRemove.length > 0)
ProcessRemovals(opts, toRemove) == ~opts.dryRun /\ Len(toRemove) > 0

\* deleteFromCloudStorage (src/unnamed/part_004:211-235) on a bucket; ok
\* tells whether file.delete() succeeds. Every error is caught and answered
\* with false.
deleteFromCloudStorage(bucket, fileName, destination, ok) ==
  LET key == ObjectKey(fileName, destination)
  IN  IF key \notin bucket THEN [store |-> bucket, result |-> FALSE]
      ELSE IF ok THEN [store |-> bucket \ {key}, result |-> TRUE]
      ELSE [store |-> bucket, result |-> FALSE]

\* the options of an operation, defaults (lines 20-27, 138-142) filled in
PolicyOptions ==
  [maxEpisodes : 0..2, maxAgeDays : 0..2, deleteAudio : BOOLEAN, dryRun : BOOLEAN]

SpecificOptions == [deleteAudio : BOOLEAN, dryRun : BOOLEAN]

\* the urls argument of removeSpecificArticles
UrlLists == {<<>>} \cup {<<l>> : l \in RLinks} \cup {<<"u", "v">>, <<"w", "w">>}

\* the index and the bucket as generatePodcast leaves them: an entry per
\* article processed and its artifact under audio/
RetainInit ==
  /\ SysInit
  /\ ChunkIdle
  /\ SynthIdle
  /\ TrackIdle
  /\ RespIdle
  /\ \E processed \in SUBSET RLinks :
       /\ rindex = [l \in processed |-> CacheEntry(l)]
       /\ rstore = {ObjectKey(FileOf(l), "audio") : l \in processed}
  /\ rpc = "idle"
  /\ settings = NoSettings
  /\ rmem = <<>>
  /\ rqueue = <<>>
  /\ rstats = NoStats
  /\ rbefore = [index |-> <<>>, store |-> {}]
  /\ rdeleted = 0
  /\ rops = 0

\* lines 19-88 and 119-126: the index is loaded, the articles to keep and
\* to remove determined; a dry run, or nothing to remove, returns
ApplyRetentionPolicy(options) ==
  /\ rpc = "idle"
  /\ rops < MaxOps
  /\ rops' = rops + 1
  /\ settings' = options
  /\ rbefore' = [index |-> rindex, store |-> rstore]
  /\ rdeleted' = 0
  /\ LET toKeep   == ToKeep(options, rindex)
         toRemove == ToRemove(options, rindex)
     IN  /\ rstats' = [totalBefore       |-> Cardinality(DOMAIN rindex),
                       totalAfter        |-> Len(toKeep),
                       removed           |-> Len(toRemove),
                       audioFilesRemoved |-> 0,
                       dryRun            |-> options.dryRun]
         /\ IF ProcessRemovals(options, toRemove)
            THEN /\ rmem' = NewProcessedArticles(options, rindex)
                 /\ rqueue' = IF options.deleteAudio
                              THEN [k \in 1..Len(toRemove) |-> rindex[toRemove[k]]]
                              ELSE <<>>
                 /\ rpc' = "policy"
            ELSE /\ rmem' = <<>>
                 /\ rqueue' = <<>>
                 /\ rpc' = "returned"
  /\ UNCHANGED <<rindex, rstore, sysVars, chunkVars, synthVars, trackVars, respVars>>

\* lines 92-113: one iteration of the loop over the articles to remove
PolicyDelete(ok) ==
  /\ rpc = "policy"
  /\ rqueue # <<>>
  /\ LET removed == Head(rqueue)
         r       == deleteFromCloudStorage(rstore, Basename(removed.audioPath),
                                           NoDestination, ok)
     IN  /\ rstore' = r.store
         /\ rdeleted' = rdeleted + (IF r.result THEN 1 ELSE 0)
         /\ rstats' = [rstats EXCEPT !.audioFilesRemoved = @ + 1]
  /\ rqueue' = Tail(rqueue)
  /\ UNCHANGED <<rindex, rpc, settings, rmem, rbefore, rops,
                 sysVars, chunkVars, synthVars, trackVars, respVars>>

\* lines 116-126: the document of the articles kept is saved
PolicySave ==
  /\ rpc = "policy"
  /\ rqueue = <<>>
  /\ rindex' = rmem
  /\ rpc' = "returned"
  /\ UNCHANGED <<rstore, settings, rmem, rqueue, rstats, rbefore, rdeleted, rops,
                 sysVars, chunkVars, synthVars, trackVars, respVars>>

\* line 117: saveJsonFile throws
PolicySaveFailed ==
  /\ rpc = "policy"
  /\ rqueue = <<>>
  /\ rpc' = "thrown"
  /\ UNCHANGED <<rindex, rstore, settings, rmem, rqueue, rstats, rbefore, rdeleted, rops,
                 sysVars, chunkVars, synthVars, trackVars, respVars>>

\* lines 137-155: the index is loaded
RemoveSpecificArticles(urls, options) ==
  /\ rpc = "idle"
  /\ rops < MaxOps
  /\ rops' = rops + 1
  /\ settings' = options
  /\ rbefore' = [index |-> rindex, store |-> rstore]
  /\ rdeleted' = 0
  /\ rmem' = rindex
  /\ rqueue' = urls
  /\ rstats' = [requested |-> Len(urls), found |-> 0, removed |-> 0,
                audioFilesRemoved |-> 0, notFound |-> <<>>, dryRun |-> options.dryRun]
  /\ rpc' = "specific"
  /\ UNCHANGED <<rindex, rstore, sysVars, chunkVars, synthVars, trackVars, respVars>>

\* lines 158-191: one iteration of the loop over the urls
SpecificStep(ok) ==
  /\ rpc = "specific"
  /\ rqueue # <<>>
  /\ rqueue' = Tail(rqueue)
  /\ LET url == Head(rqueue)
     IN  IF url \notin DOMAIN rmem
         THEN /\ rstats' = [rstats EXCEPT !.notFound = Append(@, url)]
              /\ UNCHANGED <<rstore, rmem, rdeleted>>
         ELSE IF settings.dryRun
         THEN /\ rstats' = [rstats EXCEPT !.found = @ + 1]
              /\ UNCHANGED <<rstore, rmem, rdeleted>>
         ELSE LET r == deleteFromCloudStorage(rstore, Basename(rmem[url].audioPath),
                                              NoDestination, ok)
              IN  /\ rstore' = IF settings.deleteAudio THEN r.store ELSE rstore
                  /\ rdeleted' = rdeleted +
                                   (IF settings.deleteAudio /\ r.result THEN 1 ELSE 0)
                  /\ rstats' = [rstats EXCEPT
                                  !.found = @ + 1,
                                  !.removed = @ + 1,
                                  !.audioFilesRemoved =
                                     @ + (IF settings.deleteAudio THEN 1 ELSE 0)]
                  /\ rmem' = [l \in DOMAIN rmem \ {url} |-> rmem[l]]
  /\ UNCHANGED <<rindex, rpc, settings, rbefore, rops,
                 sysVars, chunkVars, synthVars, trackVars, respVars>>

\* lines 194-201: the index is saved when something was removed
SpecificSave ==
  /\ rpc = "specific"
  /\ rqueue = <<>>
  /\ rindex' = IF ~settings.dryRun /\ rstats.removed > 0 THEN rmem ELSE rindex
  /\ rpc' = "returned"
  /\ UNCHANGED <<rstore, settings, rmem, rqueue, rstats, rbefore, rdeleted, rops,
                 sysVars, chunkVars, synthVars, trackVars, respVars>>

\* line 195: saveJsonFile throws
SpecificSaveFailed ==
  /\ rpc = "specific"
  /\ rqueue = <<>>
  /\ ~settings.dryRun /\ rstats.removed > 0
  /\ rpc' = "thrown"
  /\ UNCHANGED <<rindex, rstore, settings, rmem, rqueue, rstats, rbefore, rdeleted, rops,
                 sysVars, chunkVars, synthVars, trackVars, respVars>>

\* the caller has the result; the next operation may start
RetainDone ==
  /\ rpc \in {"returned", "thrown"}
  /\ rpc' = "idle"
  /\ settings' = NoSettings
  /\ rmem' = <<>>
  /\ rqueue' = <<>>
  /\ rstats' = NoStats
  /\ UNCHANGED <<rindex, rstore, rbefore, rdeleted, rops,
                 sysVars, chunkVars, synthVars, trackVars, respVars>>

RetainNext ==
  \/ \E options \in PolicyOptions : ApplyRetentionPolicy(options)
  \/ \E ok \in BOOLEAN : PolicyDelete(ok)
  \/ PolicySave
  \/ PolicySaveFailed
  \/ \E urls \in UrlLists, options \in SpecificOptions : RemoveSpecificArticles(urls, options)
  \/ \E ok \in BOOLEAN : SpecificStep(ok)
  \/ SpecificSave
  \/ SpecificSaveFailed
  \/ RetainDone

RetainSpec == RetainInit /\ [][RetainNext]_vars


(***************************************************************************)
(* Claims about the retention operations (checked under RetainSpec)        *)
(***************************************************************************)
\* C25: no step of an applyRetentionPolicy or removeSpecificArticles call
\* made with dryRun true changes the index or deletes an object of the
\* bucket; such a call does not get to a deletion at all (it counts no
\* audio file as removed).
C25_DryRunChangesNothing ==
  [][(\/ rpc = "idle" /\ settings' # NoSettings /\ settings'.dryRun
      \/ settings # NoSettings /\ settings.dryRun)
     => /\ rindex' = rindex
        /\ rstore' = rstore
        /\ rdeleted' = 0
        /\ settings' # NoSettings => rstats'.audioFilesRemoved = 0]_vars

\* C25 witness: a dry run of applyRetentionPolicy with deleteAudio has
\* returned, reports articles to remove, and index and bucket are what
\* they were.
C25_Witness ==
  /\ rpc = "returned"
  /\ settings.dryRun /\ settings.deleteAudio
  /\ "totalBefore" \in DOMAIN rstats
  /\ rstats.removed > 0
  /\ rindex = rbefore.index /\ rindex # <<>>
  /\ rstore = rbefore.store /\ rstore # {}

\* C29: every entry that applyRetentionPolicy keeps is the same after the
\* save as before it (title, processedDate, audioPath and description).
C29_KeptEntriesUnchanged ==
  [][(rpc = "policy" /\ rpc' = "returned") =>
       \A l \in DOMAIN rindex' : l \in DOMAIN rindex /\ rindex'[l] = rindex[l]]_vars

\* C30: when a call made with deleteAudio and without dryRun has returned,
\* the artifact under audio/ of every entry it removed is gone from the
\* bucket, and audioFilesRemoved is the number of objects it deleted.
C30_RemovedArtifactsDeleted ==
  (rpc = "returned" /\ ~settings.dryRun /\ settings.deleteAudio) =>
    /\ \A l \in DOMAIN rbefore.index \ DOMAIN rindex :
         ObjectKey(Basename(rbefore.index[l].audioPath), "audio") \notin rstore
    /\ rstats.audioFilesRemoved = rdeleted


(***************************************************************************)
(* The response of generatePodcast on its own (src/function.js:14-138):    *)
(* the events written with sendEvent and the calls of res.end(), for       *)
(* requests handled side by side, every awaited call either returning or   *)
(* throwing. res.write and res.end themselves are taken not to throw.      *)
(***************************************************************************)
\* how many progress events textToAudio reports through its callback
MaxProgress == 2

\* a request: its method, whether it carries a url, and whether the index
\* already holds that url
RequestKinds ==
  {[method |-> "OPTIONS", url |-> FALSE, known |-> FALSE, processed |-> FALSE, reported |-> 0]}
  \cup {[method |-> "POST", url |-> u, known |-> k, processed |-> FALSE, reported |-> 0] :
          u \in BOOLEAN, k \in BOOLEAN}

\* sendEvent(type, data), lines 30-32
Event(type, message) == [type |-> type, message |-> message]

\* lines 106-110 without the return of line 110: after the error event the
\* function goes on to the usage stats
ArticleFailedNoReturn(r) ==
  /\ hpc[r] \in {"article", "tts", "cache"}
  /\ hlog' = [hlog EXCEPT ![r] = Append(@, Event("error", "Error processing article"))]
  /\ hended' = [hended EXCEPT ![r] = @ + 1]
  /\ hpc' = [hpc EXCEPT ![r] = "stats"]
  /\ UNCHANGED <<hreq, sysVars, chunkVars, synthVars, trackVars, retainVars>>

\* lines 16-36: the headers are set; a preflight is answered with 204 and
\* nothing else, any other request gets the first status event
Receive(r, req) ==
  /\ hpc[r] = "idle"
  /\ hreq' = [hreq EXCEPT ![r] = req]
  /\ IF req.method = "OPTIONS"
     THEN /\ hended' = [hended EXCEPT ![r] = @ + 1]
          /\ hpc' = [hpc EXCEPT ![r] = "done"]
          /\ UNCHANGED hlog
     ELSE /\ hlog' = [hlog EXCEPT ![r] = Append(@, Event("status", "Starting process"))]
          /\ hpc' = [hpc EXCEPT ![r] = "load"]
          /\ UNCHANGED hended
  /\ UNCHANGED <<sysVars, chunkVars, synthVars, trackVars, retainVars>>

\* lines 47-63 and 113-116: the index is loaded and the gate decided
LoadCache(r) ==
  /\ hpc[r] = "load"
  /\ hlog' = [hlog EXCEPT ![r] =
                IF ~hreq[r].url
                THEN Append(@, Event("status", "Regenerating feed"))
                ELSE IF hreq[r].known
                THEN @ \o <<Event("progress", "Fetching"), Event("status", "Already processed")>>
                ELSE Append(@, Event("progress", "Fetching"))]
  /\ hpc' = [hpc EXCEPT ![r] = IF hreq[r].url /\ ~hreq[r].known THEN "article" ELSE "stats"]
  /\ UNCHANGED <<hreq, hended, sysVars, chunkVars, synthVars, trackVars, retainVars>>

\* lines 66-70: processArticle and getOptimalVoice return
ProcessArticle(r) ==
  /\ hpc[r] = "article"
  /\ hpc' = [hpc EXCEPT ![r] = "tts"]
  /\ UNCHANGED <<hreq, hlog, hended, sysVars, chunkVars, synthVars, trackVars, retainVars>>

\* line 78: textToAudio reports progress through the callback
TtsProgress(r) ==
  /\ hpc[r] = "tts"
  /\ hreq[r].reported < MaxProgress
  /\ hreq' = [hreq EXCEPT ![r].reported = @ + 1]
  /\ hlog' = [hlog EXCEPT ![r] = Append(@, Event("progress", "Synthesizing"))]
  /\ UNCHANGED <<hpc, hended, sysVars, chunkVars, synthVars, trackVars, retainVars>>

\* lines 74-101: textToAudio returns
TextToAudio(r) ==
  /\ hpc[r] = "tts"
  /\ hpc' = [hpc EXCEPT ![r] = "cache"]
  /\ UNCHANGED <<hreq, hlog, hended, sysVars, chunkVars, synthVars, trackVars, retainVars>>

\* lines 82 and 104: the index is saved
SaveCache(r) ==
  /\ hpc[r] = "cache"
  /\ hreq' = [hreq EXCEPT ![r].processed = TRUE]
  /\ hpc' = [hpc EXCEPT ![r] = "stats"]
  /\ UNCHANGED <<hlog, hended, sysVars, chunkVars, synthVars, trackVars, retainVars>>

\* lines 106-111: processArticle, textToAudio or saveJsonFile throws
ArticleFailed(r) ==
  /\ hpc[r] \in {"article", "tts", "cache"}
  /\ hlog' = [hlog EXCEPT ![r] = Append(@, Event("error", "Error processing article"))]
  /\ hended' = [hended EXCEPT ![r] = @ + 1]
  /\ hpc' = [hpc EXCEPT ![r] = "done"]
  /\ UNCHANGED <<hreq, sysVars, chunkVars, synthVars, trackVars, retainVars>>

\* lines 119-125: the stats are read, and updated when something was
\* processed
UpdateStats(r) ==
  /\ hpc[r] = "stats"
  /\ hlog' = [hlog EXCEPT ![r] = Append(@, Event("progress", "Finalizing"))]
  /\ hpc' = [hpc EXCEPT ![r] = "feed"]
  /\ UNCHANGED <<hreq, hended, sysVars, chunkVars, synthVars, trackVars, retainVars>>

\* lines 129-131: the feed data is generated, 'complete' sent, the response
\* ended
Complete(r) ==
  /\ hpc[r] = "feed"
  /\ hlog' = [hlog EXCEPT ![r] = Append(@, Event("complete", "responseData"))]
  /\ hended' = [hended EXCEPT ![r] = @ + 1]
  /\ hpc' = [hpc EXCEPT ![r] = "done"]
  /\ UNCHANGED <<hreq, sysVars, chunkVars, synthVars, trackVars, retainVars>>

\* lines 133-137: trackUsage (line 121) or generateFeedResponseData (line
\* 129) throws
InternalError(r) ==
  /\ \/ hpc[r] = "stats" /\ hreq[r].processed
     \/ hpc[r] = "feed"
  /\ hlog' = [hlog EXCEPT ![r] = Append(@, Event("error", "Internal Error"))]
  /\ hended' = [hended EXCEPT ![r] = @ + 1]
  /\ hpc' = [hpc EXCEPT ![r] = "done"]
  /\ UNCHANGED <<hreq, sysVars, chunkVars, synthVars, trackVars, retainVars>>

RespInit == SysInit /\ ChunkIdle /\ SynthIdle /\ TrackIdle /\ RetainIdle /\ RespIdle

RespNext ==
  \E r \in Requests :
    \/ \E req \in RequestKinds : Receive(r, req)
    \/ LoadCache(r)
    \/ ProcessArticle(r)
    \/ TtsProgress(r)
    \/ TextToAudio(r)
    \/ SaveCache(r)
    \/ ArticleFailed(r)
    \/ UpdateStats(r)
    \/ Complete(r)
    \/ InternalError(r)

RespSpec == RespInit /\ [][RespNext]_vars

(***************************************************************************)
(* Claims about the response (checked under RespSpec)                      *)
(***************************************************************************)
IsTerminal(e) == e.type \in {"complete", "error"}

\* C27: for every request other than a preflight, a terminal event
\* ('complete' or 'error') is never followed by another event, the response
\* is ended when and only when the terminal event has been written, and
\* never twice; an invocation that is over has written its terminal event
\* and ended the response; nothing is written after the response is ended.
C27_OneTerminalEvent ==
  /\ [](\A r \in Requests :
          (hreq[r] # NoRequest /\ hreq[r].method # "OPTIONS") =>
            /\ \A k \in 1..(Len(hlog[r]) - 1) : ~IsTerminal(hlog[r][k])
            /\ hended[r] <= 1
            /\ hended[r] = 1 <=> (hlog[r] # <<>> /\ IsTerminal(hlog[r][Len(hlog[r])]))
            /\ hpc[r] = "done" <=> hended[r] = 1)
  /\ [][\A r \in Requests : hended[r] >= 1 => hlog'[r] = hlog[r]]_vars

\* C27 witness: three invocations are over, one on the success path with
\* an article processed, one on the article-error path and one on the
\* internal-error path, each with its terminal event last and the response
\* ended once.
C27_Witness ==
  \E a, b, c \in Requests :
    /\ hpc[a] = "done" /\ hpc[b] = "done" /\ hpc[c] = "done"
    /\ hlog[a] # <<>> /\ hlog[b] # <<>> /\ hlog[c] # <<>>
    /\ hreq[a].processed /\ hlog[a][Len(hlog[a])].type = "complete"
    /\ hlog[b][Len(hlog[b])] = Event("error", "Error processing article")
    /\ hlog[c][Len(hlog[c])] = Event("error", "Internal Error")
    /\ hended[a] = 1 /\ hended[b] = 1 /\ hended[c] = 1
    /\ Len(hlog[a]) >= 5

====
